---- MODULE Spec2Model ----
(***************************************************************************)
(* The two BookList controllers of cap_ui5 as one state machine.           *)
(*                                                                         *)
(*   "rich"   : src/unnamed/part_000 (Authors + Books, soft delete)        *)
(*   "simple" : src/app/booklist/webapp/controller/BookList.controller.js  *)
(*              (Authors only, hard delete)                                *)
(*                                                                         *)
(* Every handler is one action up to its first await; every await is a     *)
(* record in the bag `pending`, resumed by a second action that draws the  *)
(* outcome of the awaited promise.  The collaborators that have no state   *)
(* in the controller (MessageToast, MessageBox.error, binding.refresh())   *)
(* are observed through `ev`, which records what the last step did.        *)
(***************************************************************************)
EXTENDS Integers, FiniteSets, Sequences, Bags, TLC

\* ---------------------------------------------------------------- bounds
\* Number of Author rows the list shows at start.
NumAuthors == 2
\* Number of suspended invocations (awaits and open confirmation boxes).
MaxPending == 2
\* Number of fragment instances that can be alive at once.
MaxDialogs == 2

\* Length of the text typed into an input of a dialog.
MaxLen == 2

\* JavaScript null, for the fields that hold an identity or an instance.
Null == 0

Authors == 1..NumAuthors
DialogIds == 1..MaxDialogs
Variants == {"rich", "simple"}
Outcomes == {"ack", "rej"}
BoxActions == {"OK", "CANCEL"}

\* The characters a user types: one whitespace character and one that is not.
Chars == {" ", "a"}

\* What getValue() of an input can return.
RawValues == UNION {[1..n -> Chars] : n \in 0..MaxLen}

\* getValue() of an input nothing was typed into.
Blank == {<<>>}

VARIABLES
    variant,             \* which of the two controllers this run is
    authorListBound,     \* authorList has an "items" binding
    selected,            \* rows marked selected in authorList
    _oAuthorDialog,      \* controller field: Add/Edit Author dialog instance
    _oBookDialog,        \* controller field: Add Book dialog instance (rich)
    _oEditContext,       \* controller field: context saved by onEditAuthor
    _sSelectedAuthorId,  \* controller field: ID saved by onAuthorSelect (rich)
    booksBinding,        \* the "items" binding of booksTable (rich)
    dialogs,             \* the fragment instances, by instance id
    pending,             \* bag of suspended invocations
    store,               \* the Author rows of the remote service
    ev                   \* what the last step did

vars == <<variant, authorListBound, selected, _oAuthorDialog,
          _oBookDialog, _oEditContext, _sSelectedAuthorId, booksBinding,
          dialogs, pending, store, ev>>

\* ------------------------------------------------------------ collaborators

\* A fragment slot with no live instance (never loaded, or destroyed).
\* prefill is the row whose data the inputs of an Edit Author fragment were
\* last set from (Null: the inputs were never set).
NoDialog == [name |-> "none", open |-> FALSE, prefill |-> Null]

\* What Fragment.load() resolves to, after .open() was called on it.
Opened(sName) == [name |-> sName, open |-> TRUE, prefill |-> Null]

\* Fragment.byId(sFragId, "editNameInput").setValue(oData.name) and the same
\* for editBioInput: the look-up is by id, not by instance, so every live Edit
\* Author fragment shows the data of the row oData was read from.
Prefill(dlgs, oData) ==
    [i \in DOMAIN dlgs |->
        IF dlgs[i].name = "EditAuthorDialog"
        THEN [dlgs[i] EXCEPT !.prefill = oData]
        ELSE dlgs[i]]

\* booksTable without an items binding (initially, and after unbindItems()).
Unbound == [bound |-> FALSE, filters |-> <<>>]

\* Fragment.byId(viewId, <an input of fragment sName>) finds a control only
\* while an instance of that fragment is alive; otherwise it is undefined.
HasControl(dlgs, sName) == \E i \in DialogIds : dlgs[i].name = sName

FreeIds(dlgs) == {i \in DialogIds : dlgs[i] = NoDialog}

\* The instance a resolved Fragment.load() hands back.
NewId(dlgs) == CHOOSE i \in FreeIds(dlgs) : \A j \in FreeIds(dlgs) : i <= j

\* Dialog.open() on a live instance.
Open(dlgs, i) == [dlgs EXCEPT ![i].open = TRUE]

\* A suspended invocation: the handler, where it waits, the context or
\* identity it captured, and the notices and refreshes it already made.
Task(op, pc, ctx) ==
    [op |-> op, pc |-> pc, ctx |-> ctx, toasts |-> 0, refreshes |-> 0]

\* Mutant of Suspend: an invocation is suspended only while no other is.
SuspendOnce(t) == IF pending = EmptyBag THEN pending (+) SetToBag({t}) ELSE pending

Suspend(t) == pending (+) SetToBag({t})

Resume(t) == pending (-) SetToBag({t})

Waiting(op, pc) == {t \in BagToSet(pending) : t.op = op /\ t.pc = pc}

CanSuspend == BagCardinality(pending) < MaxPending

\* No invocation is suspended: nothing is in flight.
Idle == pending = EmptyBag

\* The program counters at which a remote call of the store is in flight.
RemotePcs == {"create", "name", "bio", "delete", "isDeleted"}

\* The rows authorList shows.
Rows == Authors

\* The remote service.  The controller sees of it only whether a call is
\* acknowledged or rejected, so its content is a component of its own: the
\* handlers below do not mention store, and a specification composes the
\* steps that resume from a remote call either with Opaque (the content is
\* not followed) or with Tracked (an acknowledged call takes effect on the
\* row it addresses, a rejected call has none).
InitStore ==
    [a \in Authors |->
        [exists |-> TRUE, isDeleted |-> FALSE, name |-> "old", bio |-> "old"]]

Written(s, t, outcome) ==
    IF outcome /= "ack" THEN s
    ELSE CASE t.pc = "isDeleted" -> [s EXCEPT ![t.ctx].isDeleted = TRUE]
           [] t.pc = "delete" -> [s EXCEPT ![t.ctx].exists = FALSE]
           [] t.pc = "name" -> [s EXCEPT ![t.ctx].name = "new"]
           [] t.pc = "bio" -> [s EXCEPT ![t.ctx].bio = "new"]
           [] OTHER -> s

Opaque == UNCHANGED store

Tracked(t, outcome) == store' = Written(store, t, outcome)

\* ----------------------------------------------------------------- observer
\* ev describes the last step: the handler (op), which part of it ran (step:
\* "call" up to the first await, "loaded" after Fragment.load, "onClose" the
\* confirmation callback, "settled" after a remote call), whether the
\* operation ended with it (done), the outcome of the remote call it resumed
\* from, the toasts, error boxes and refresh() calls the invocation has made
\* so far, whether the step ended in an uncaught TypeError (threw), the
\* answer given to the confirmation box, the identity _sSelectedAuthorId
\* held before onAuthorSelect ran (prevId), the values the step read from the
\* inputs of a dialog (raw), the payload of the create call it issued
\* (bodyData) and the number of live dialog instances it destroyed (closed).

NoEv ==
    [op |-> "init", step |-> "none", done |-> FALSE, outcome |-> "none",
     toasts |-> 0, errors |-> 0, refreshA |-> 0, refreshB |-> 0,
     threw |-> FALSE, answer |-> "none", prevId |-> Null,
     raw |-> <<>>, bodyData |-> Null, closed |-> 0]

Observe(op, step, done) ==
    [NoEv EXCEPT !.op = op, !.step = step, !.done = done]

\* ------------------------------------------------------------------ helpers

\* String.prototype.trim(): the leading whitespace is removed, then the
\* trailing.
RECURSIVE trim(_)
trim(s) ==
    IF s = <<>> THEN s
    ELSE IF Head(s) = " " THEN trim(Tail(s))
    ELSE IF s[Len(s)] = " " THEN trim(SubSeq(s, 1, Len(s) - 1))
    ELSE s

\* Mutant of ExactlyOne: the refusal only tests for an empty selection.
AtLeastOne(aContexts) == Cardinality(aContexts) >= 1

\* aContexts.length !== 1 is the refusal; this is its negation.
ExactlyOne(aContexts) == Cardinality(aContexts) = 1

\* aContexts[0]: the up-most selected row.
First(aContexts) == CHOOSE a \in aContexts : \A b \in aContexts : a <= b

\* oList.getSelectedItem(): the up-most selected item, null when none is.
getSelectedItem(S) == IF S = {} THEN Null ELSE First(S)

\* Mutant of IsOK: onClose does not look at the answer.
AnyAnswer(sAction) == TRUE

\* sAction !== MessageBox.Action.OK is the early return of onClose.
IsOK(sAction) == sAction = "OK"

\* Mutant of Catches: a rejected await does not leave the try.
NeverCatches(outcome) == FALSE

\* An awaited promise that is rejected throws into the catch of the try.
Catches(outcome) == outcome = "rej"

\* Mutant of IsNull: onAddBook never refuses.
NeverNull(sId) == FALSE

\* this._sSelectedAuthorId === null is the refusal of onAddBook.
IsNull(sId) == sId = Null

\* Mutant of _closeAndDestroyDialog: only the Author dialog is torn down.
_closeAuthorDialogOnly ==
    [author |-> Null,
     book |-> _oBookDialog,
     dialogs |-> [i \in DialogIds |->
                     IF i = _oAuthorDialog THEN NoDialog ELSE dialogs[i]],
     threw |-> FALSE]

\* _closeAndDestroyDialog: the fields and instances after it, and whether it
\* threw (the simple controller dereferences _oAuthorDialog unguarded).
_closeAndDestroyDialog ==
    IF variant = "rich"
    THEN [author |-> Null,
          book |-> Null,
          dialogs |-> [i \in DialogIds |->
                          IF i \in {_oAuthorDialog, _oBookDialog}
                          THEN NoDialog ELSE dialogs[i]],
          threw |-> FALSE]
    ELSE IF _oAuthorDialog = Null
         THEN [author |-> _oAuthorDialog, book |-> _oBookDialog,
               dialogs |-> dialogs, threw |-> TRUE]
         ELSE [author |-> Null,
               book |-> _oBookDialog,
               dialogs |-> [dialogs EXCEPT ![_oAuthorDialog] = NoDialog],
               threw |-> FALSE]

\* The number of live instances a teardown with result r has destroyed.
Destroyed(r) ==
    Cardinality({i \in DialogIds :
                    dialogs[i] /= NoDialog /\ r.dialogs[i] = NoDialog})

\* _refreshAuthorList: the number of refresh() calls it makes.
_refreshAuthorList == IF authorListBound THEN 1 ELSE 0

\* _refreshBooks: the number of refresh() calls it makes.
_refreshBooks == IF booksBinding.bound THEN 1 ELSE 0

\* Mutant of _bindBooks: the new filter is added to those of the old binding.
_bindBooksAppend(sAuthorID, binding) ==
    [bound |-> TRUE, filters |-> Append(binding.filters, sAuthorID)]

\* _bindBooks: the binding of booksTable after it.
_bindBooks(sAuthorID, binding) ==
    IF sAuthorID = Null
    THEN Unbound
    ELSE [bound |-> TRUE, filters |-> <<sAuthorID>>]

\* --------------------------------------------------------------------- Init

Init ==
    /\ variant \in Variants
    /\ authorListBound \in BOOLEAN
    /\ selected = {}
    /\ _oAuthorDialog = Null
    /\ _oBookDialog = Null
    /\ _oEditContext = Null
    /\ _sSelectedAuthorId = Null
    /\ booksBinding = Unbound
    /\ dialogs = [i \in DialogIds |-> NoDialog]
    /\ pending = EmptyBag
    /\ store = InitStore
    /\ ev = NoEv

\* ----------------------------------------------------- selection (the UI)

\* The user changes the selection of authorList; in the rich controller the
\* list's selectionChange event then runs onAuthorSelect.
onAuthorSelect(S) ==
    /\ variant = "rich"
    /\ S /= selected
    /\ selected' = S
    /\ LET oAuthorSelected == getSelectedItem(S) IN
       IF oAuthorSelected = Null
       THEN UNCHANGED <<_sSelectedAuthorId, booksBinding>>
       ELSE /\ _sSelectedAuthorId' = oAuthorSelected
            /\ booksBinding' = _bindBooks(oAuthorSelected, booksBinding)
    /\ ev' = [Observe("onAuthorSelect", "call", TRUE)
                EXCEPT !.prevId = _sSelectedAuthorId]
    /\ UNCHANGED <<variant, store, authorListBound, _oAuthorDialog,
                   _oBookDialog, _oEditContext, dialogs, pending>>

\* The simple controller has no selection handler: the selection changes and
\* nothing runs.
SelectRows(S) ==
    /\ variant = "simple"
    /\ S /= selected
    /\ selected' = S
    /\ ev' = Observe("selectionChange", "call", TRUE)
    /\ UNCHANGED <<variant, store, authorListBound, _oAuthorDialog,
                   _oBookDialog, _oEditContext, _sSelectedAuthorId,
                   booksBinding, dialogs, pending>>

\* ------------------------------------------------------------- Add Author

\* onAddAuthor up to its await: load the fragment when the field is null,
\* else open the instance the field holds.
onAddAuthor ==
    /\ IF _oAuthorDialog = Null
       THEN /\ CanSuspend
            /\ pending' = Suspend(Task("onAddAuthor", "load", Null))
            /\ ev' = Observe("onAddAuthor", "call", FALSE)
            /\ UNCHANGED dialogs
       ELSE /\ dialogs' = Open(dialogs, _oAuthorDialog)
            /\ ev' = Observe("onAddAuthor", "call", TRUE)
            /\ UNCHANGED pending
    /\ UNCHANGED <<variant, store, authorListBound, selected, _oAuthorDialog,
                   _oBookDialog, _oEditContext, _sSelectedAuthorId,
                   booksBinding>>

\* Fragment.load resolved: the field is assigned and the dialog opened.
onAddAuthorLoaded(t) ==
    /\ t \in Waiting("onAddAuthor", "load")
    /\ FreeIds(dialogs) /= {}
    /\ LET i == NewId(dialogs) IN
       /\ _oAuthorDialog' = i
       /\ dialogs' = [dialogs EXCEPT ![i] = Opened("AddAuthorDialog")]
    /\ pending' = Resume(t)
    /\ ev' = Observe("onAddAuthor", "loaded", TRUE)
    /\ UNCHANGED <<variant, store, authorListBound, selected, _oBookDialog,
                   _oEditContext, _sSelectedAuthorId, booksBinding>>

\* onAddAuthorConfirm up to its await.  Its first statements read
\* addNameInput and addBioInput, which exist only while an Add Author
\* fragment is alive (otherwise the handler throws before doing anything);
\* sNameRaw and sBioRaw are what getValue() returns.
onAddAuthorConfirm(sNameRaw, sBioRaw) ==
    /\ HasControl(dialogs, "AddAuthorDialog")
    /\ CanSuspend
    /\ LET sName == trim(sNameRaw)
           sBio == trim(sBioRaw)
           bodyData == [name |-> sName, bio |-> sBio]
       IN /\ pending' = Suspend(Task("onAddAuthorConfirm", "create", Null))
          /\ ev' = [Observe("onAddAuthorConfirm", "call", FALSE)
                      EXCEPT !.raw = <<sNameRaw, sBioRaw>>,
                             !.bodyData = bodyData]
    /\ UNCHANGED <<variant, store, authorListBound, selected, _oAuthorDialog,
                   _oBookDialog, _oEditContext, _sSelectedAuthorId,
                   booksBinding, dialogs>>

\* The tail shared by onAddAuthorConfirm and onEditAuthorConfirm after
\* their try/catch: _closeAndDestroyDialog(), then _refreshAuthorList(),
\* which is not reached when the teardown threw.
ConfirmTail(op, outcome, nToasts, nErrors) ==
    LET r == _closeAndDestroyDialog IN
    /\ _oAuthorDialog' = r.author
    /\ _oBookDialog' = r.book
    /\ dialogs' = r.dialogs
    /\ ev' = [Observe(op, "settled", TRUE)
                EXCEPT !.outcome = outcome,
                       !.toasts = nToasts,
                       !.errors = nErrors,
                       !.threw = r.threw,
                       !.closed = Destroyed(r),
                       !.refreshA = IF r.threw THEN 0 ELSE _refreshAuthorList]

\* created() settled: toast or error box, then the tail.
onAddAuthorConfirmSettled(t, outcome) ==
    /\ t \in Waiting("onAddAuthorConfirm", "create")
    /\ pending' = Resume(t)
    /\ IF outcome = "ack"
       THEN ConfirmTail("onAddAuthorConfirm", outcome, 1, 0)
       ELSE ConfirmTail("onAddAuthorConfirm", outcome, 0, 1)
    /\ UNCHANGED <<variant, authorListBound, selected, _oEditContext,
                   _sSelectedAuthorId, booksBinding>>

\* ------------------------------------------------------------ Edit Author

\* onEditAuthor up to its await.
onEditAuthor ==
    LET aContexts == selected IN
    /\ IF ~ExactlyOne(aContexts)
       THEN /\ ev' = [Observe("onEditAuthor", "call", TRUE) EXCEPT !.toasts = 1]
            /\ UNCHANGED <<_oEditContext, pending, dialogs>>
       ELSE /\ _oEditContext' = First(aContexts)
            /\ IF _oAuthorDialog = Null
               THEN /\ CanSuspend
                    /\ pending' =
                         Suspend(Task("onEditAuthor", "load", First(aContexts)))
                    /\ ev' = Observe("onEditAuthor", "call", FALSE)
                    /\ UNCHANGED dialogs
               ELSE \* no load: prefill through Fragment.byId, then open()
                    IF HasControl(dialogs, "EditAuthorDialog")
                    THEN /\ dialogs' = Open(Prefill(dialogs, First(aContexts)),
                                          _oAuthorDialog)
                         /\ ev' = Observe("onEditAuthor", "call", TRUE)
                         /\ UNCHANGED pending
                    ELSE /\ ev' = [Observe("onEditAuthor", "call", TRUE)
                                     EXCEPT !.threw = TRUE]
                         /\ UNCHANGED <<pending, dialogs>>
    /\ UNCHANGED <<variant, store, authorListBound, selected, _oAuthorDialog,
                   _oBookDialog, _sSelectedAuthorId, booksBinding>>

\* Fragment.load resolved: field assigned, inputs prefilled from oData (read
\* from the context before the await, kept in t.ctx), dialog opened.
onEditAuthorLoaded(t) ==
    /\ t \in Waiting("onEditAuthor", "load")
    /\ FreeIds(dialogs) /= {}
    /\ LET i == NewId(dialogs) IN
       /\ _oAuthorDialog' = i
       /\ dialogs' = Prefill([dialogs EXCEPT ![i] = Opened("EditAuthorDialog")],
                             t.ctx)
    /\ pending' = Resume(t)
    /\ ev' = Observe("onEditAuthor", "loaded", TRUE)
    /\ UNCHANGED <<variant, store, authorListBound, selected, _oBookDialog,
                   _oEditContext, _sSelectedAuthorId, booksBinding>>

\* onEditAuthorConfirm up to its first await.  It reads editNameInput and
\* editBioInput first, then issues setProperty("name") on _oEditContext; a
\* null context makes that call throw inside the try.
onEditAuthorConfirm ==
    /\ HasControl(dialogs, "EditAuthorDialog")
    /\ IF _oEditContext = Null
       THEN /\ ConfirmTail("onEditAuthorConfirm", "none", 0, 1)
            /\ UNCHANGED pending
       ELSE /\ CanSuspend
            /\ pending' =
                 Suspend(Task("onEditAuthorConfirm", "name", _oEditContext))
            /\ ev' = Observe("onEditAuthorConfirm", "call", FALSE)
            /\ UNCHANGED <<_oAuthorDialog, _oBookDialog, dialogs>>
    /\ UNCHANGED <<variant, store, authorListBound, selected, _oEditContext,
                   _sSelectedAuthorId, booksBinding>>

\* setProperty("name") settled: on acknowledgment setProperty("bio") is
\* issued, on rejection the catch and the tail run.
onEditAuthorNameSettled(t, outcome) ==
    /\ t \in Waiting("onEditAuthorConfirm", "name")
    /\ IF ~Catches(outcome)
       THEN /\ pending' = Resume(t) (+) SetToBag({[t EXCEPT !.pc = "bio"]})
            /\ ev' = [Observe("onEditAuthorConfirm", "settled", FALSE)
                        EXCEPT !.outcome = outcome]
            /\ UNCHANGED <<_oAuthorDialog, _oBookDialog, dialogs>>
       ELSE /\ pending' = Resume(t)
            /\ ConfirmTail("onEditAuthorConfirm", outcome, 0, 1)
    /\ UNCHANGED <<variant, authorListBound, selected, _oEditContext,
                   _sSelectedAuthorId, booksBinding>>

\* setProperty("bio") settled: toast or error box, then the tail.
onEditAuthorBioSettled(t, outcome) ==
    /\ t \in Waiting("onEditAuthorConfirm", "bio")
    /\ pending' = Resume(t)
    /\ IF outcome = "ack"
       THEN ConfirmTail("onEditAuthorConfirm", outcome, 1, 0)
       ELSE ConfirmTail("onEditAuthorConfirm", outcome, 0, 1)
    /\ UNCHANGED <<variant, authorListBound, selected, _oEditContext,
                   _sSelectedAuthorId, booksBinding>>

\* ----------------------------------------------------------------- Cancel

\* onDialogCancel, the Cancel button every dialog fragment carries.
onDialogCancel ==
    /\ \E i \in DialogIds : dialogs[i] /= NoDialog
    /\ LET r == _closeAndDestroyDialog IN
       /\ _oAuthorDialog' = r.author
       /\ _oBookDialog' = r.book
       /\ dialogs' = r.dialogs
       /\ ev' = [Observe("onDialogCancel", "call", TRUE)
                   EXCEPT !.threw = r.threw, !.closed = Destroyed(r)]
    /\ UNCHANGED <<variant, store, authorListBound, selected, _oEditContext,
                   _sSelectedAuthorId, booksBinding, pending>>

\* ---------------------------------------------------------- Delete Author

\* onDeleteAuthor: the refusal, or MessageBox.confirm shown with the
\* selected context captured by its onClose callback.
onDeleteAuthor ==
    LET aContexts == selected IN
    /\ IF ~ExactlyOne(aContexts)
       THEN /\ ev' = [Observe("onDeleteAuthor", "call", TRUE)
                        EXCEPT !.toasts = 1]
            /\ UNCHANGED pending
       ELSE /\ CanSuspend
            /\ pending' =
                 Suspend(Task("onDeleteAuthor", "confirm", First(aContexts)))
            /\ ev' = Observe("onDeleteAuthor", "call", FALSE)
    /\ UNCHANGED <<variant, store, authorListBound, selected, _oAuthorDialog,
                   _oBookDialog, _oEditContext, _sSelectedAuthorId,
                   booksBinding, dialogs>>

\* _performSoftDelete up to its await: setProperty("isDeleted", true) is
\* issued on the context.  onClose does not await the promise it returns, so
\* the toast and the refresh that follow the call are made at once.
_performSoftDelete(t) ==
    [t EXCEPT !.pc = "isDeleted",
              !.toasts = 1,
              !.refreshes = _refreshAuthorList]

\* The onClose callback of the confirmation box.
onDeleteAuthorClose(t, sAction) ==
    /\ t \in Waiting("onDeleteAuthor", "confirm")
    /\ IF ~IsOK(sAction)
       THEN /\ pending' = Resume(t)
            /\ ev' = [Observe("onDeleteAuthor", "onClose", TRUE)
                        EXCEPT !.answer = sAction]
       ELSE IF variant = "rich"
            THEN LET u == _performSoftDelete(t) IN
                 /\ pending' = Resume(t) (+) SetToBag({u})
                 /\ ev' = [Observe("onDeleteAuthor", "onClose", FALSE)
                             EXCEPT !.answer = sAction,
                                    !.toasts = u.toasts,
                                    !.refreshA = u.refreshes]
            ELSE /\ pending' = Resume(t) (+) SetToBag({[t EXCEPT !.pc = "delete"]})
                 /\ ev' = [Observe("onDeleteAuthor", "onClose", FALSE)
                             EXCEPT !.answer = sAction]
    /\ UNCHANGED <<variant, store, authorListBound, selected, _oAuthorDialog,
                   _oBookDialog, _oEditContext, _sSelectedAuthorId,
                   booksBinding, dialogs>>

\* Simple controller: context.delete() settled.  Acknowledged: toast, then
\* _refreshAuthorList.  Rejected: the catch shows the error box.
onDeleteAuthorSettled(t, outcome) ==
    /\ t \in Waiting("onDeleteAuthor", "delete")
    /\ pending' = Resume(t)
    /\ IF outcome = "ack"
       THEN /\ ev' = [Observe("onDeleteAuthor", "settled", TRUE)
                        EXCEPT !.outcome = outcome,
                               !.toasts = 1,
                               !.refreshA = _refreshAuthorList]
       ELSE /\ ev' = [Observe("onDeleteAuthor", "settled", TRUE)
                        EXCEPT !.outcome = outcome, !.errors = 1]
    /\ UNCHANGED <<variant, authorListBound, selected, _oAuthorDialog, _oBookDialog,
                   _oEditContext, _sSelectedAuthorId, booksBinding, dialogs>>

\* Rich controller: the promise of _performSoftDelete settled.  Nothing
\* awaits it: a rejection is an unhandled rejection and shows nothing.
_performSoftDeleteSettled(t, outcome) ==
    /\ t \in Waiting("onDeleteAuthor", "isDeleted")
    /\ pending' = Resume(t)
    /\ ev' = [Observe("onDeleteAuthor", "settled", TRUE)
                EXCEPT !.outcome = outcome,
                       !.toasts = t.toasts,
                       !.refreshA = t.refreshes]
    /\ UNCHANGED <<variant, authorListBound, selected, _oAuthorDialog,
                   _oBookDialog, _oEditContext, _sSelectedAuthorId,
                   booksBinding, dialogs>>

\* ------------------------------------------------------- Add Book (rich)

\* onAddBook up to its await.
onAddBook ==
    /\ variant = "rich"
    /\ IF IsNull(_sSelectedAuthorId)
       THEN /\ ev' = [Observe("onAddBook", "call", TRUE) EXCEPT !.toasts = 1]
            /\ UNCHANGED <<pending, dialogs>>
       ELSE IF _oBookDialog = Null
            THEN /\ CanSuspend
                 /\ pending' = Suspend(Task("onAddBook", "load", Null))
                 /\ ev' = Observe("onAddBook", "call", FALSE)
                 /\ UNCHANGED dialogs
            ELSE /\ dialogs' = Open(dialogs, _oBookDialog)
                 /\ ev' = Observe("onAddBook", "call", TRUE)
                 /\ UNCHANGED pending
    /\ UNCHANGED <<variant, store, authorListBound, selected, _oAuthorDialog,
                   _oBookDialog, _oEditContext, _sSelectedAuthorId,
                   booksBinding>>

\* Fragment.load resolved: the field is assigned and the dialog opened.
onAddBookLoaded(t) ==
    /\ t \in Waiting("onAddBook", "load")
    /\ FreeIds(dialogs) /= {}
    /\ LET i == NewId(dialogs) IN
       /\ _oBookDialog' = i
       /\ dialogs' = [dialogs EXCEPT ![i] = Opened("AddBookDialog")]
    /\ pending' = Resume(t)
    /\ ev' = Observe("onAddBook", "loaded", TRUE)
    /\ UNCHANGED <<variant, store, authorListBound, selected, _oAuthorDialog,
                   _oEditContext, _sSelectedAuthorId, booksBinding>>

\* onAddBookConfirm up to its await: the inputs of the Add Book fragment are
\* read, author_ID is taken from _sSelectedAuthorId, create() is issued.
onAddBookConfirm ==
    /\ variant = "rich"
    /\ HasControl(dialogs, "AddBookDialog")
    /\ CanSuspend
    /\ pending' = Suspend(Task("onAddBookConfirm", "create", _sSelectedAuthorId))
    /\ ev' = Observe("onAddBookConfirm", "call", FALSE)
    /\ UNCHANGED <<variant, store, authorListBound, selected, _oAuthorDialog,
                   _oBookDialog, _oEditContext, _sSelectedAuthorId,
                   booksBinding, dialogs>>

\* Mutant of BookTail: the handler ends as the Author confirm handlers do,
\* with _refreshAuthorList().
AuthorTail(op, outcome, nToasts, nErrors) ==
    ConfirmTail(op, outcome, nToasts, nErrors)

\* The end of the try of onAddBookConfirm: _closeAndDestroyDialog(), then
\* _refreshBooks().
BookTail(op, outcome, nToasts, nErrors) ==
    LET r == _closeAndDestroyDialog IN
    /\ _oAuthorDialog' = r.author
    /\ _oBookDialog' = r.book
    /\ dialogs' = r.dialogs
    /\ ev' = [Observe(op, "settled", TRUE)
                EXCEPT !.outcome = outcome,
                       !.toasts = nToasts,
                       !.errors = nErrors,
                       !.closed = Destroyed(r),
                       !.refreshB = _refreshBooks]

\* created() settled.  Acknowledged: toast, _closeAndDestroyDialog,
\* _refreshBooks, all inside the try.  Rejected: the catch shows the error
\* box and the handler ends.
onAddBookConfirmSettled(t, outcome) ==
    /\ t \in Waiting("onAddBookConfirm", "create")
    /\ pending' = Resume(t)
    /\ IF outcome = "ack"
       THEN BookTail("onAddBookConfirm", outcome, 1, 0)
       ELSE /\ ev' = [Observe("onAddBookConfirm", "settled", TRUE)
                        EXCEPT !.outcome = outcome, !.errors = 1]
            /\ UNCHANGED <<_oAuthorDialog, _oBookDialog, dialogs>>
    /\ UNCHANGED <<variant, authorListBound, selected, _oEditContext,
                   _sSelectedAuthorId, booksBinding>>

\* --------------------------------------------------------------------- Next
\* Every handler of both controllers.  The remote service is opaque and the
\* inputs of the Add Author dialog are left empty; SpecAddAuthor types into
\* them, SpecSoftDelete and SpecEdit follow the rows of the service.

Next ==
    \/ \E S \in SUBSET Rows : onAuthorSelect(S)
    \/ \E S \in SUBSET Rows : SelectRows(S)
    \/ onAddAuthor
    \/ \E t \in BagToSet(pending) : onAddAuthorLoaded(t)
    \/ \E sNameRaw \in Blank, sBioRaw \in Blank :
          onAddAuthorConfirm(sNameRaw, sBioRaw)
    \/ \E t \in BagToSet(pending), o \in Outcomes :
          onAddAuthorConfirmSettled(t, o) /\ Opaque
    \/ onEditAuthor
    \/ \E t \in BagToSet(pending) : onEditAuthorLoaded(t)
    \/ onEditAuthorConfirm
    \/ \E t \in BagToSet(pending), o \in Outcomes :
          onEditAuthorNameSettled(t, o) /\ Opaque
    \/ \E t \in BagToSet(pending), o \in Outcomes :
          onEditAuthorBioSettled(t, o) /\ Opaque
    \/ onDialogCancel
    \/ onDeleteAuthor
    \/ \E t \in BagToSet(pending), a \in BoxActions : onDeleteAuthorClose(t, a)
    \/ \E t \in BagToSet(pending), o \in Outcomes :
          onDeleteAuthorSettled(t, o) /\ Opaque
    \/ \E t \in BagToSet(pending), o \in Outcomes :
          _performSoftDeleteSettled(t, o) /\ Opaque
    \/ onAddBook
    \/ \E t \in BagToSet(pending) : onAddBookLoaded(t)
    \/ onAddBookConfirm
    \/ \E t \in BagToSet(pending), o \in Outcomes :
          onAddBookConfirmSettled(t, o) /\ Opaque

Spec == Init /\ [][Next]_vars

\* ------------------------------------------------- the controller, by feature
\* The same handlers, with the user driving one feature only.  The state
\* spaces are small enough to be searched to the end with every bound raised.

\* Selection, Edit Author up to the opened dialog, Cancel, and Delete Author,
\* in both controllers.  Edit is pressed at any time when it will be refused,
\* and while nothing is in flight when it will not.
NextEditDelete ==
    \/ \E S \in SUBSET Rows : onAuthorSelect(S)
    \/ \E S \in SUBSET Rows : SelectRows(S)
    \/ Cardinality(selected) /= 1 /\ onEditAuthor
    \/ Idle /\ onEditAuthor
    \/ \E t \in BagToSet(pending) : onEditAuthorLoaded(t)
    \/ onDialogCancel
    \/ onDeleteAuthor
    \/ \E t \in BagToSet(pending), a \in BoxActions : onDeleteAuthorClose(t, a)
    \/ \E t \in BagToSet(pending), o \in Outcomes :
          onDeleteAuthorSettled(t, o) /\ Opaque
    \/ \E t \in BagToSet(pending), o \in Outcomes :
          _performSoftDeleteSettled(t, o) /\ Opaque

SpecEditDelete == Init /\ [][NextEditDelete]_vars

\* Selection and Add Book, in the rich controller.
InitRich == Init /\ variant = "rich"

NextBooks ==
    \/ \E S \in SUBSET Rows : onAuthorSelect(S)
    \/ onAddBook
    \/ \E t \in BagToSet(pending) : onAddBookLoaded(t)
    \/ onAddBookConfirm
    \/ \E t \in BagToSet(pending), o \in Outcomes :
          onAddBookConfirmSettled(t, o) /\ Opaque
    \/ onDialogCancel

SpecBooks == InitRich /\ [][NextBooks]_vars

\* Selection, Add Author, Add Book and Cancel in the rich controller: the two
\* dialog fields and the three places that tear dialogs down.
NextDialogs ==
    \/ \E S \in SUBSET Rows : onAuthorSelect(S)
    \/ onAddAuthor
    \/ \E t \in BagToSet(pending) : onAddAuthorLoaded(t)
    \/ \E sNameRaw \in Blank, sBioRaw \in Blank :
          onAddAuthorConfirm(sNameRaw, sBioRaw)
    \/ \E t \in BagToSet(pending), o \in Outcomes :
          onAddAuthorConfirmSettled(t, o) /\ Opaque
    \/ onAddBook
    \/ \E t \in BagToSet(pending) : onAddBookLoaded(t)
    \/ onAddBookConfirm
    \/ \E t \in BagToSet(pending), o \in Outcomes :
          onAddBookConfirmSettled(t, o) /\ Opaque
    \/ onDialogCancel

SpecDialogs == InitRich /\ [][NextDialogs]_vars

\* Selection, Edit Author and Cancel in both controllers, with the rows of
\* the remote service followed.
NextEdit ==
    \/ \E S \in SUBSET Rows : onAuthorSelect(S)
    \/ \E S \in SUBSET Rows : SelectRows(S)
    \/ onEditAuthor
    \/ \E t \in BagToSet(pending) : onEditAuthorLoaded(t)
    \/ onEditAuthorConfirm
    \/ \E t \in BagToSet(pending), o \in Outcomes :
          onEditAuthorNameSettled(t, o) /\ Tracked(t, o)
    \/ \E t \in BagToSet(pending), o \in Outcomes :
          onEditAuthorBioSettled(t, o) /\ Tracked(t, o)
    \/ onDialogCancel

SpecEdit == Init /\ [][NextEdit]_vars

\* The same, for a user who presses Edit only while nothing is in flight;
\* Save, Cancel and the selection stay free.
NextEditSerial ==
    \/ \E S \in SUBSET Rows : onAuthorSelect(S)
    \/ \E S \in SUBSET Rows : SelectRows(S)
    \/ Idle /\ onEditAuthor
    \/ \E t \in BagToSet(pending) : onEditAuthorLoaded(t)
    \/ onEditAuthorConfirm
    \/ \E t \in BagToSet(pending), o \in Outcomes :
          onEditAuthorNameSettled(t, o) /\ Tracked(t, o)
    \/ \E t \in BagToSet(pending), o \in Outcomes :
          onEditAuthorBioSettled(t, o) /\ Tracked(t, o)
    \/ onDialogCancel

SpecEditSerial == Init /\ [][NextEditSerial]_vars

\* Add Author and Cancel, in both controllers.
NextAddAuthor ==
    \/ onAddAuthor
    \/ \E t \in BagToSet(pending) : onAddAuthorLoaded(t)
    \/ \E sNameRaw \in RawValues, sBioRaw \in RawValues :
          onAddAuthorConfirm(sNameRaw, sBioRaw)
    \/ \E t \in BagToSet(pending), o \in Outcomes :
          onAddAuthorConfirmSettled(t, o) /\ Opaque
    \/ onDialogCancel

SpecAddAuthor == Init /\ [][NextAddAuthor]_vars

\* Selection and Delete Author in the rich controller, with the rows of the
\* remote service followed.
NextSoftDelete ==
    \/ \E S \in SUBSET Rows : onAuthorSelect(S)
    \/ onDeleteAuthor
    \/ \E t \in BagToSet(pending), a \in BoxActions : onDeleteAuthorClose(t, a)
    \/ \E t \in BagToSet(pending), o \in Outcomes :
          _performSoftDeleteSettled(t, o) /\ Tracked(t, o)

SpecSoftDelete == InitRich /\ [][NextSoftDelete]_vars

TypeOK ==
    /\ variant \in Variants
    /\ selected \subseteq Rows
    /\ _oAuthorDialog \in DialogIds \cup {Null}
    /\ _oBookDialog \in DialogIds \cup {Null}
    /\ _oEditContext \in Authors \cup {Null}
    /\ _sSelectedAuthorId \in Authors \cup {Null}
    /\ BagCardinality(pending) <= MaxPending
    /\ \A i \in DialogIds : dialogs[i] /= NoDialog => dialogs[i].open
    /\ _oAuthorDialog /= Null => dialogs[_oAuthorDialog].name \in {"AddAuthorDialog", "EditAuthorDialog"}
    /\ _oBookDialog /= Null => dialogs[_oBookDialog].name = "AddBookDialog"
    /\ HasControl(dialogs, "EditAuthorDialog") => _oEditContext /= Null
    /\ \A i \in DialogIds : dialogs[i].prefill \in Authors \cup {Null}
    /\ \A a \in Authors : store[a].name \in {"old", "new"}

\* ------------------------------------------------------------------- claims

ConfirmHandlers ==
    {"onAddAuthorConfirm", "onEditAuthorConfirm", "onAddBookConfirm"}

\* A CRUD operation ended in this step, with the outcome of its remote call.
CrudEnded == ev.done /\ ev.outcome \in Outcomes

\* The number of remote calls in flight in a bag of suspended invocations.
RemoteCalls(b) ==
    BagCardinality([t \in {u \in DOMAIN b : u.pc \in RemotePcs} |-> b[t]])

\* The number of delete mutations (hard delete, isDeleted write) in flight.
DeleteCalls(b) ==
    BagCardinality(
        [t \in {u \in DOMAIN b : u.pc \in {"delete", "isDeleted"}} |-> b[t]])

\* C1: once onDialogCancel has run or a confirm handler has completed,
\* whatever the outcome of its remote call, the dialog fields are null and
\* the instances they held are destroyed.
C1_DialogGoneAfterCancelOrConfirm ==
    (ev.done /\ ev.op \in ConfirmHandlers \cup {"onDialogCancel"}) =>
        /\ _oAuthorDialog = Null
        /\ _oBookDialog = Null

\* C2: every CRUD operation whose remote call settled, acknowledged or
\* rejected, has refreshed its list binding when that binding exists: the
\* Author list for the Author operations, the Book view for Create Book.
C2_RefreshWhateverTheOutcome ==
    CrudEnded =>
        IF ev.op = "onAddBookConfirm"
        THEN booksBinding.bound => ev.refreshB >= 1
        ELSE authorListBound => ev.refreshA >= 1

\* C3: every CRUD operation whose remote call settled has shown exactly one
\* notice: the success toast iff it was acknowledged, the error box iff it
\* was rejected.
C3_ExactlyOneNotice ==
    CrudEnded =>
        /\ ev.outcome = "ack" => ev.toasts = 1 /\ ev.errors = 0
        /\ ev.outcome = "rej" => ev.toasts = 0 /\ ev.errors = 1

\* C4: while the remote call of an operation is still pending, that
\* operation has shown no success toast and refreshed no list.
C4_NoSuccessBeforeAck ==
    \A t \in BagToSet(pending) :
        t.pc \in RemotePcs => t.toasts = 0 /\ t.refreshes = 0

\* C5: onEditAuthor or onDeleteAuthor invoked with a selection of zero or
\* several rows shows the "select one" toast and changes nothing: no load,
\* no dialog, no confirmation box, no remote call, the Edit Context kept.
C5_RefusalChangesNothing ==
    [][(/\ ev'.op \in {"onEditAuthor", "onDeleteAuthor"}
        /\ ev'.step = "call"
        /\ Cardinality(selected) /= 1)
       => (/\ ev'.toasts = 1
           /\ ev'.errors = 0
           /\ ev'.done
           /\ ~ev'.threw
           /\ UNCHANGED <<selected, _oAuthorDialog, _oBookDialog,
                          _oEditContext, _sSelectedAuthorId, booksBinding,
                          dialogs, pending>>)]_vars

\* Edit refused with several rows selected, an Edit Context from an earlier
\* edit being held.
C5_Witness ==
    /\ ev.op = "onEditAuthor"
    /\ ev.step = "call"
    /\ Cardinality(selected) = 2
    /\ ev.toasts = 1
    /\ _oEditContext /= Null

\* C6: onAddBook invoked while no Author is selected in the list is refused
\* with a toast; it loads and opens no Add Book dialog.
C6_NoAddBookWithoutSelection ==
    (ev.op = "onAddBook" /\ ev.step = "call" /\ selected = {}) =>
        /\ ev.toasts = 1
        /\ ev.done

\* C7: in the rich controller the Book view is unbound while no Author is
\* selected, and bound with the selected Author's identity as its filter
\* while exactly one is.
C7_BookViewFollowsSelection ==
    variant = "rich" =>
        /\ selected = {} => ~booksBinding.bound
        /\ \A a \in Authors :
              selected = {a} =>
                  booksBinding = [bound |-> TRUE, filters |-> <<a>>]

\* C8: after onAuthorSelect ran with Author B selected, whatever identity was
\* recorded before, the recorded identity is B and the Book view's only
\* filter is B.
C8_RebindReplaces ==
    \A b \in Authors :
        (ev.op = "onAuthorSelect" /\ selected = {b}) =>
            /\ _sSelectedAuthorId = b
            /\ booksBinding = [bound |-> TRUE, filters |-> <<b>>]

\* Author 2 selected after Author 1 was the recorded identity.
C8_Witness ==
    /\ ev.op = "onAuthorSelect"
    /\ ev.prevId = 1
    /\ selected = {2}
    /\ _sSelectedAuthorId = 2
    /\ booksBinding.filters = <<2>>

\* C9: a delete mutation is issued only by the onClose callback answered
\* with OK; onDeleteAuthor itself issues no remote call, and an answer other
\* than OK issues no remote call, shows no notice and refreshes no list.
C9_NoMutationBeforeOK ==
    [][/\ DeleteCalls(pending') > DeleteCalls(pending) =>
            /\ ev'.op = "onDeleteAuthor"
            /\ ev'.step = "onClose"
            /\ ev'.answer = "OK"
       /\ (ev'.op = "onDeleteAuthor" /\ ev'.step = "call") =>
            RemoteCalls(pending') = RemoteCalls(pending)
       /\ (ev'.op = "onDeleteAuthor" /\ ev'.step = "onClose"
              /\ ev'.answer /= "OK") =>
            /\ RemoteCalls(pending') = RemoteCalls(pending)
            /\ ev'.toasts = 0
            /\ ev'.errors = 0
            /\ ev'.refreshA = 0
            /\ ev'.refreshB = 0
            /\ UNCHANGED <<selected, _oAuthorDialog, _oBookDialog,
                           _oEditContext, _sSelectedAuthorId, booksBinding,
                           dialogs>>]_vars

\* The confirmation box answered with Cancel: the box is gone and no remote
\* call is in flight.
C9_Witness ==
    /\ ev.op = "onDeleteAuthor"
    /\ ev.step = "onClose"
    /\ ev.answer = "CANCEL"
    /\ pending = EmptyBag

\* C10: a teardown request, from onDialogCancel or from the end of a confirm
\* handler, never raises an error, also when it finds no live dialog.
C10_TeardownNeverThrows ==
    ev.op \in ConfirmHandlers \cup {"onDialogCancel"} => ~ev.threw

\* The live instances of the fragments named in sNames.
LiveOf(sNames) == {i \in DialogIds : dialogs[i].name \in sNames}

AuthorDialogs == {"AddAuthorDialog", "EditAuthorDialog"}

\* C11: at any time at most one Author dialog instance and at most one Book
\* dialog instance is alive, and every live instance is the one a dialog
\* field of the controller refers to.
C11_OneLiveInstancePerKind ==
    /\ Cardinality(LiveOf(AuthorDialogs)) <= 1
    /\ Cardinality(LiveOf({"AddBookDialog"})) <= 1
    /\ \A i \in DialogIds :
          dialogs[i] /= NoDialog => i \in {_oAuthorDialog, _oBookDialog}

\* C12: when onEditAuthor has opened the Edit Author dialog, an Edit Context
\* is set and the inputs of the dialog show the data of the row the Edit
\* Context holds.
C12_EditOpensPrefilledFromContext ==
    (/\ ev.op = "onEditAuthor"
     /\ ev.done
     /\ ~ev.threw
     /\ ev.toasts = 0
     /\ _oAuthorDialog /= Null
     /\ dialogs[_oAuthorDialog].name = "EditAuthorDialog") =>
        /\ _oEditContext /= Null
        /\ dialogs[_oAuthorDialog].prefill = _oEditContext

\* s is raw without its leading and trailing whitespace.
IsTrimOf(s, raw) ==
    \E i \in 0..Len(raw) : \E j \in i..Len(raw) :
        /\ s = SubSeq(raw, i + 1, j)
        /\ \A k \in 1..i : raw[k] = " "
        /\ \A k \in (j + 1)..Len(raw) : raw[k] = " "
        /\ s /= <<>> => s[1] /= " " /\ s[Len(s)] /= " "

\* The number of create calls against /Authors in flight.
CreateAuthorCalls(b) ==
    BagCardinality(
        [t \in {u \in DOMAIN b : u.op = "onAddAuthorConfirm"} |-> b[t]])

\* C13: an invocation of onAddAuthorConfirm issues one create call against
\* /Authors, with the payload {name, bio} of the two input values trimmed,
\* and issues no other call; when the call is acknowledged the Author list
\* binding is refreshed once and the dialog is destroyed.
C13_OneTrimmedCreateThenRefresh ==
    [][/\ (ev'.op = "onAddAuthorConfirm" /\ ev'.step = "call") =>
            /\ CreateAuthorCalls(pending') = CreateAuthorCalls(pending) + 1
            /\ RemoteCalls(pending') = RemoteCalls(pending) + 1
            /\ DOMAIN ev'.bodyData = {"name", "bio"}
            /\ IsTrimOf(ev'.bodyData.name, ev'.raw[1])
            /\ IsTrimOf(ev'.bodyData.bio, ev'.raw[2])
       /\ (ev'.op = "onAddAuthorConfirm" /\ ev'.step = "settled") =>
            /\ CreateAuthorCalls(pending') = CreateAuthorCalls(pending) - 1
            /\ RemoteCalls(pending') = RemoteCalls(pending) - 1
       /\ (/\ ev'.op = "onAddAuthorConfirm"
           /\ ev'.step = "settled"
           /\ ev'.outcome = "ack") =>
            /\ authorListBound => ev'.refreshA = 1
            /\ ev'.refreshA <= 1
            /\ _oAuthorDialog' = Null
            /\ _oAuthorDialog /= Null => dialogs'[_oAuthorDialog] = NoDialog]_vars

\* C14: the create call an invocation of onAddBookConfirm issues carries as
\* author_ID the identity onAuthorSelect recorded last, as it is when the
\* handler is invoked, and that identity is the one of an Author, not null.
C14_BookCarriesCurrentAuthor ==
    [][(ev'.op = "onAddBookConfirm" /\ ev'.step = "call") =>
          \E t \in BagToSet(pending') :
              /\ t.op = "onAddBookConfirm"
              /\ t.pc = "create"
              /\ CopiesIn(t, pending') = CopiesIn(t, pending) + 1
              /\ t.ctx = _sSelectedAuthorId
              /\ t.ctx \in Authors]_vars

\* Create Book confirmed after the list was deselected: the call carries
\* Author 2, the identity recorded last.
C14_Witness ==
    /\ ev.op = "onAddBookConfirm"
    /\ ev.step = "call"
    /\ selected = {}
    /\ _sSelectedAuthorId = 2
    /\ \E t \in BagToSet(pending) : t.op = "onAddBookConfirm" /\ t.ctx = 2

\* C15: in the rich controller no row is ever removed from the store and no
\* delete call is ever issued, and a Delete Author that has reported success
\* ("Author deleted successfully.") has its row in the store with the
\* isDeleted flag true.
C15_SoftDeleteSetsTheFlag ==
    variant = "rich" =>
        /\ \A a \in Authors : store[a].exists
        /\ \A t \in BagToSet(pending) : t.pc /= "delete"
        /\ \A t \in BagToSet(pending) :
              (t.op = "onDeleteAuthor" /\ t.toasts >= 1) =>
                  store[t.ctx].exists /\ store[t.ctx].isDeleted

\* C16: no step of onAddBookConfirm refreshes the Author list binding or
\* changes the Author selection, the recorded Author identity or the
\* bindings; an acknowledged create refreshes the Book view binding, once.
C16_BookMutationLeavesAuthorsAlone ==
    [][ev'.op = "onAddBookConfirm" =>
          /\ ev'.refreshA = 0
          /\ UNCHANGED <<selected, _sSelectedAuthorId, authorListBound,
                         booksBinding>>
          /\ (ev'.outcome = "ack" /\ booksBinding.bound) => ev'.refreshB = 1
          /\ ev'.refreshB <= 1]_vars

\* Create Book acknowledged with a bound Author list and a selected Author:
\* the Book view is refreshed, the Author list is not.
C16_Witness ==
    /\ ev.op = "onAddBookConfirm"
    /\ ev.outcome = "ack"
    /\ ev.refreshB = 1
    /\ ev.refreshA = 0
    /\ authorListBound
    /\ selected /= {}

\* The rows the live Edit Author dialogs were opened for: the row whose data
\* onEditAuthor put into the inputs.
SessionRows == {dialogs[i].prefill : i \in LiveOf({"EditAuthorDialog"})}

\* The update calls (setProperty of name or of bio) a step has issued.
UpdatesIssued(b, c) ==
    {t \in BagToSet(c) :
        /\ t.op = "onEditAuthorConfirm"
        /\ t.pc \in {"name", "bio"}
        /\ CopiesIn(t, c) > CopiesIn(t, b)}

\* C17: every update call onEditAuthorConfirm issues, the write of the name
\* at its invocation and the write of the bio after it, targets the row the
\* Edit Author dialog open at that moment was opened for; with no such dialog
\* open, no update is issued.
C17_UpdateTargetsRowOfOpenSession ==
    [][\A t \in UpdatesIssued(pending, pending') : t.ctx \in SessionRows]_vars

\* C18: an invocation of onAddAuthorConfirm issues its create call whatever
\* is already in flight: it is not refused, shows no notice and raises no
\* error, also while the create call of an earlier invocation is pending.
C18_NoInFlightGuard ==
    [][(ev'.op = "onAddAuthorConfirm" /\ ev'.step = "call") =>
          /\ CreateAuthorCalls(pending') = CreateAuthorCalls(pending) + 1
          /\ ~ev'.done
          /\ ~ev'.threw
          /\ ev'.toasts = 0
          /\ ev'.errors = 0]_vars

\* onAddAuthorConfirm invoked a second time before the first create was
\* acknowledged: two create calls against /Authors are pending.
C18_Witness ==
    /\ ev.op = "onAddAuthorConfirm"
    /\ ev.step = "call"
    /\ CreateAuthorCalls(pending) = 2

\* A step of the last handler ran the teardown of the rich controller:
\* Cancel, the end of an Author confirm handler, an acknowledged Create Book.
TornDown(e) ==
    \/ e.op = "onDialogCancel"
    \/ e.op \in {"onAddAuthorConfirm", "onEditAuthorConfirm"} /\ e.done
    \/ e.op = "onAddBookConfirm" /\ e.done /\ e.outcome = "ack"

Resumed(b, c) == {t \in BagToSet(b) : CopiesIn(t, c) < CopiesIn(t, b)}

KindAskedFor ==
    [onAddAuthor |-> "AddAuthorDialog", onEditAuthor |-> "EditAuthorDialog"]

\* The last step was an open handler that reached its open() call: it ended
\* the invocation without a refusal toast and without a TypeError.
ReachedOpen ==
    /\ ev.op \in DOMAIN KindAskedFor
    /\ ev.done
    /\ ev.toasts = 0
    /\ ~ev.threw

\* C21: in both controllers the dialog an open handler opens is of the kind
\* the handler asked for: after onAddAuthor has called open(), the instance
\* _oAuthorDialog holds is an open Add Author fragment, after onEditAuthor an
\* open Edit Author fragment, whatever other instance was loaded or was being
\* loaded when the handler was invoked.
C21_OpensTheKindAskedFor ==
    ReachedOpen =>
        /\ _oAuthorDialog /= Null
        /\ dialogs[_oAuthorDialog].open
        /\ dialogs[_oAuthorDialog].name = KindAskedFor[ev.op]
====
